---------------------------- MODULE Spec2Model ----------------------------
(***************************************************************************)
(* Model of server/app.py of searchly: the LangGraph turn loop             *)
(* (model -> tool_node -> model ...), the conversation store keyed by      *)
(* thread id, and the SSE generator generate_chat_responses.               *)
(*                                                                         *)
(* Two specifications:                                                     *)
(*   Spec          two calls of generate_chat_responses running            *)
(*                 concurrently against the process-wide graph and store;  *)
(*   SpecClassify  the event loop of generate_chat_responses fed with an   *)
(*                 arbitrary sequence of lifecycle events (the classifier  *)
(*                 as a function of its input).                            *)
(***************************************************************************)
EXTENDS Naturals, Sequences, FiniteSets

\* ------------------------------------------------------------------ bounds

\* model invocations that return or raise, over all turn sequences
MaxInvocations == 2

\* tokens the language model streams, over all turn sequences
MaxChunks == 1

\* entries of arbitrary shape at the head of a search payload
MaxPrefix == 2

\* tool calls in one message handed to tool_node or to the loop on its own
MaxCalls == 2

\* events in a sequence of mixed kinds handed to the loop on its own
MaxEvents == 3

\* link-bearing entries that follow them
MaxTail == 9

\* ------------------------------------------------------- program constants

\* the [:8] slices of the url extraction
MaxUrls == 8

\* the two calls of generate_chat_responses
Reqs == {"r1", "r2"}

\* str(uuid4()) values, in the order the process draws them
UuidNames == <<"u1", "u2">>

\* identifiers a client can make up, never issued by the server
ClientIds == {"", "x"}

AllIds == ClientIds \cup {UuidNames[i] : i \in 1..Len(UuidNames)}

\* message texts a client sends
Texts == {"hello"}

\* Optional[...] values: None is the empty tuple, a value v is <<v>>
None == <<>>

Some(v) == <<v>>

VARIABLES
    graph,      \* the module global: "None" before startup, "compiled" after
    store,      \* the checkpointer: thread id -> messages of the latest checkpoint
    issued,     \* how many uuid4 values have been drawn
    pc,         \* where each call of generate_chat_responses stands
    cid,        \* its checkpoint_id argument
    text,       \* its message argument
    tid,        \* config["configurable"]["thread_id"], None before it is set
    msgs,       \* the "messages" channel of its graph run
    turns,      \* model invocations of its graph run so far
    invoked,    \* model invocations that have returned or raised, in all
    chunks,     \* tokens the language model has streamed, in all
    tpos,       \* tool_node: how many tool calls of the last message its loop has taken
    flight,     \* tool_node: the ids of its searches running in a thread
    tmsgs,      \* tool_node: its tool_messages list
    exc,        \* whether an exception has been raised inside its try block
    out,        \* the chunks it has yielded, in order
    feed,       \* SpecClassify: the lifecycle events handed to the loop
    fpos        \* SpecClassify: index of the next event of feed

vars == <<graph, store, issued, pc, cid, text, tid, msgs, turns, invoked, chunks, tpos, flight, tmsgs, exc, out, feed, fpos>>

\* ---------------------------------------------------------------- messages

\* HumanMessage(content=message); "by" stands for the message's identity
HumanMessage(r, t) ==
    [role |-> "human", by |-> r, content |-> t, tool_calls |-> <<>>,
     tool_call_id |-> <<>>, name |-> ""]

\* the AIMessage the model returns
AIMessage(r, calls) ==
    [role |-> "ai", by |-> r, content |-> "", tool_calls |-> calls,
     tool_call_id |-> <<>>, name |-> ""]

\* a ToolMessage that does not carry the id of its call
ToolMessageNoId(r, id, nm) ==
    [role |-> "tool", by |-> r, content |-> "results", tool_calls |-> <<>>,
     tool_call_id |-> <<>>, name |-> nm]

\* ToolMessage(content=json.dumps(search_results), tool_call_id=..., name=...)
ToolMessage(r, id, nm) ==
    [role |-> "tool", by |-> r, content |-> "results", tool_calls |-> <<>>,
     tool_call_id |-> id, name |-> nm]

\* a tool invocation; args is the argument mapping: <<>> without "query"
ToolCall(nm, args, id) == [name |-> nm, args |-> args, id |-> id]

\* tool_args.get("query", "")
QueryOf(call) == IF call.args = <<>> THEN "" ELSE call.args[1]

\* a reducer that keeps the new messages only
AddMessagesReplace(left, right) == right

\* the add_messages reducer on fresh messages: append
AddMessages(left, right) == left \o right


\* --------------------------------------------------------------- SSE chunks

\* json.dumps({"type": t, <field>: v})
Payload(t, v) == [type |-> t, val |-> v]

\* f"data: {json.dumps(payload)}\n\n"
Frame(p) == [data |-> p, end |-> "\n\n"]

\* f"data: {json.dumps(payload)}" : the string line 198 builds, no terminator
FrameNoTerminator(p) == [data |-> p, end |-> ""]

\* the chunk yielded at line 198
NotReadyFrame == FrameNoTerminator(Payload("error", "Server not ready. Please try again."))

\* the chunk yielded at lines 199 and 277
EndFrame == Frame(Payload("end", ""))

\* the chunk yielded at line 220
CheckpointFrame(id) == Frame(Payload("checkpoint", id))

\* the chunk yielded at line 273; the message text is abstracted to its prefix
ErrorFrame == Frame(Payload("error", "An error occurred"))

\* What an SSE client recovers from the bytes of the response: the text is cut
\* at each "\n\n"; a block is the payloads of the chunks up to and including
\* the first terminated one.  Text after the last "\n\n" is no block.
RECURSIVE SplitBlocks(_, _, _)
SplitBlocks(w, cur, acc) ==
    IF w = <<>> THEN acc
    ELSE IF Head(w).end = "\n\n"
         THEN SplitBlocks(Tail(w), <<>>, Append(acc, Append(cur, Head(w).data)))
         ELSE SplitBlocks(Tail(w), Append(cur, Head(w).data), acc)

Blocks(w) == SplitBlocks(w, <<>>, <<>>)

\* A block that is one "data: <json>" line decodes to its payload; a block made
\* of several chunks run together ("data: {...}data: {...}") is not JSON.
BlockType(b) == IF Len(b) = 1 THEN b[1].type ELSE "malformed"

\* the frame types the client sees, in order
FrameTypes(w) ==
    LET b == Blocks(w)
    IN  [i \in 1..Len(b) |-> BlockType(b[i])]

\* ------------------------------------------------------------------ events

\* search payload entries: isdict is isinstance(item, dict); link and url are
\* Optional strings, written as numbers, 0 standing for the empty string
Item(d, l, u) == [isdict |-> d, link |-> l, url |-> u]

\* a decoded value: t is "dict", "list" or "other"; for a dict, organic tells
\* whether the key is present and iterable whether its value can be iterated
Value(t, org, it, items) == [t |-> t, organic |-> org, iterable |-> it, items |-> items]

NoValue == Value("other", FALSE, FALSE, <<>>)

\* event["data"]["output"]: a str (decodable or not) or a structured value
Output(isstr, dec, v) == [isstr |-> isstr, decodable |-> dec, val |-> v]

NoOutput == Output(FALSE, FALSE, NoValue)

\* one astream_events item
Event(ev, nm, isChunk, content, calls, output) ==
    [event |-> ev, name |-> nm, is_chunk |-> isChunk, content |-> content,
     tool_calls |-> calls, output |-> output]

StreamEvent(content) == Event("on_chat_model_stream", "ChatOpenAI", TRUE, content, <<>>, NoOutput)

ModelEndEvent(calls) == Event("on_chat_model_end", "ChatOpenAI", TRUE, "", calls, NoOutput)

\* a graph node starting or ending: tool_node calls serper_wrapper.results
\* directly, so its run is visible only as chain events of the node
ChainEvent(nm) == Event("on_chain_end", nm, FALSE, "", <<>>, NoOutput)

ToolEndEvent(nm, output) == Event("on_tool_end", nm, FALSE, "", <<>>, output)

\* ------------------------------------------------------------ url extraction

\* the slice left out
SliceAll(s, n) == s

\* s[:n]
Slice(s, n) == IF Len(s) <= n THEN s ELSE SubSeq(s, 1, n)

\* [item["link"] for item in parsed["organic"] if isinstance(item, dict) and "link" in item]
RECURSIVE OrganicLinks(_)
OrganicLinks(items) ==
    IF items = <<>> THEN <<>>
    ELSE LET it == Head(items)
         IN  IF it.isdict /\ it.link # None
             THEN <<it.link[1]>> \o OrganicLinks(Tail(items))
             ELSE OrganicLinks(Tail(items))

\* item.get("link") or item.get("url", "")
LinkOrUrl(it) ==
    IF it.link # None /\ it.link[1] # 0 THEN it.link[1]
    ELSE IF it.url # None THEN it.url[1] ELSE 0

\* [item.get("link") or item.get("url", "") for item in parsed if isinstance(item, dict)]
RECURSIVE ListLinks(_)
ListLinks(items) ==
    IF items = <<>> THEN <<>>
    ELSE LET it == Head(items)
         IN  IF it.isdict
             THEN <<LinkOrUrl(it)>> \o ListLinks(Tail(items))
             ELSE ListLinks(Tail(items))

\* what the try block of lines 260-265 raises on an output: json.loads raises
\* JSONDecodeError on a str that is not JSON, and iterating an "organic" value
\* that cannot be iterated raises TypeError
ExtractError(o) ==
    IF o.isstr /\ ~o.decodable THEN "JSONDecodeError"
    ELSE IF o.val.t = "dict" /\ o.val.organic /\ ~o.val.iterable THEN "TypeError"
    ELSE "none"

\* an except clause that names KeyError only
HandledKeyErrorOnly(err) == err = "KeyError"

\* line 266: except (json.JSONDecodeError, KeyError, TypeError)
Handled(err) == err \in {"JSONDecodeError", "KeyError", "TypeError"}

\* lines 259-267: the urls of a search output; urls stays [] when the try
\* block raises
ExtractUrls(o) ==
    IF ExtractError(o) # "none" THEN <<>>
    ELSE LET parsed == o.val
         IN  IF parsed.t = "dict" /\ parsed.organic
             THEN Slice(OrganicLinks(parsed.items), MaxUrls)
             ELSE IF parsed.t = "list" THEN Slice(ListLinks(parsed.items), MaxUrls)
             ELSE <<>>

\* --------------------------------------------------------------- classifier

\* a filter that keeps every tool call
AllCalls(calls) == calls

\* [call for call in tool_calls if call["name"] == "google_serper"]
SearchCalls(calls) == SelectSeq(calls, LAMBDA c : c.name = "google_serper")

\* serialise_ai_message_chunk raises TypeError on anything but an AIMessageChunk
SerialiseRaises(e) == e.event = "on_chat_model_stream" /\ ~e.is_chunk

\* whether the loop body raises on an event: the TypeError of
\* serialise_ai_message_chunk, or an exception of the url extraction that
\* line 266 does not name
ClassifyRaises(e) ==
    \/ SerialiseRaises(e)
    \/ /\ e.event = "on_tool_end"
       /\ e.name = "google_serper"
       /\ ExtractError(e.output) # "none"
       /\ ~Handled(ExtractError(e.output))

\* lines 232-269: the chunks one event makes the loop yield (none or one)
Classify(e) ==
    IF e.event = "on_chat_model_stream"
    THEN <<Frame(Payload("content", e.content))>>
    ELSE IF e.event = "on_chat_model_end"
    THEN IF SearchCalls(e.tool_calls) # <<>>
         THEN <<Frame(Payload("search_start", QueryOf(SearchCalls(e.tool_calls)[1])))>>
         ELSE <<>>
    ELSE IF e.event = "on_tool_end" /\ e.name = "google_serper"
    THEN <<Frame(Payload("search_results", ExtractUrls(e.output)))>>
    ELSE <<>>

\* ------------------------------------------------------------- graph nodes

\* what llm_with_tools.ainvoke can return on model invocation t: the tool
\* invocations of the AIMessage (ids are unique per invocation)
ModelOutputs(t) ==
    { <<>>,
      <<ToolCall("google_serper", Some("q"), <<t, 1>>)>>,
      <<ToolCall("other_tool", None, <<t, 1>>)>> }

\* the tool calls a message can carry: a search for one of two queries, a
\* search without "query", a tool the model was not given
CallKinds ==
    << <<"google_serper", Some("q1")>>, <<"google_serper", Some("q2")>>,
       <<"google_serper", None>>, <<"other_tool", None>> >>

\* the lists of up to MaxCalls tool calls of turn t, ids numbered by position
CallLists(t) ==
    { [i \in 1..Len(f) |-> ToolCall(CallKinds[f[i]][1], CallKinds[f[i]][2], <<t, i>>)] :
        f \in UNION {[1..n -> 1..Len(CallKinds)] : n \in 0..MaxCalls} }

\* a router that never returns END
ToolsRouterAlwaysTool(last) == "tool_node"

\* a router that looks only for the calls tool_node can run
ToolsRouterSearchOnly(last) == IF Len(SearchCalls(last.tool_calls)) > 0 THEN "tool_node" ELSE "END"

\* tools_router: "tool_node" when the last message has tool calls, else END
ToolsRouter(last) == IF Len(last.tool_calls) > 0 THEN "tool_node" ELSE "END"

\* a tool_node that runs every tool call as a search
IsSearchAlways(c) == TRUE

\* line 87: tool_node runs only the calls named google_serper
IsSearch(c) == c.name = "google_serper"

\* --------------------------------------------------- generate_chat_responses

\* a generator that returns the same value on every call
Uuid4Repeated == UuidNames[1]

\* str(uuid4()): a value never drawn before
Uuid4 == UuidNames[issued + 1]

\* a test that also takes the empty string for no identifier
IsNewFalsy(c) == c = None \/ c = Some("")

\* line 203: is_new_conversation = checkpoint_id is None
IsNewConversation(c) == c = None

\* a continuing branch that does not use the identifier it was given
ThreadIdNotGiven(c, fresh) == fresh

\* config = {"configurable": {"thread_id": ...}} of the two branches
ThreadId(c, fresh) == IF c = None THEN fresh ELSE c[1]

\* a new-conversation branch that yields nothing before the loop
NewConversationNoChunk(id) == <<>>

\* what the new-conversation branch yields before the loop
NewConversationChunks(id) == <<CheckpointFrame(id)>>

\* an except clause that catches the failures of the model only
CaughtModelOnly(e) == e = "model"

\* "except Exception" catches every exception the turn sequence can raise
Caught(e) == e \in {"model", "search", "classify"}

\* identifiers a client can send back: made up, or issued earlier
KnownIds == ClientIds \cup {UuidNames[i] : i \in 1..issued}

\* a generator whose chunks reach the client latest first
YieldFirst(r, cs) == out' = [out EXCEPT ![r] = cs \o @]

\* yield: the chunks are sent in the order they are yielded
Yield(r, cs) == out' = [out EXCEPT ![r] = @ \o cs]

\* lines 271-273: the except block, entered when Caught; otherwise the
\* exception leaves the generator
Except(r, e) ==
    IF Caught(e)
    THEN /\ exc' = [exc EXCEPT ![r] = TRUE]
         /\ Yield(r, <<ErrorFrame>>)
         /\ pc' = [pc EXCEPT ![r] = "ending"]
    ELSE /\ pc' = [pc EXCEPT ![r] = "crashed"]
         /\ UNCHANGED <<exc, out>>

\* the checkpointer saves the channel values after every step of the run
Save(r, m) == store' = [store EXCEPT ![tid[r][1]] = m]

Init ==
    /\ graph = "None"
    /\ store = [i \in AllIds |-> <<>>]
    /\ issued = 0
    /\ pc = [r \in Reqs |-> "idle"]
    /\ cid = [r \in Reqs |-> None]
    /\ text = [r \in Reqs |-> ""]
    /\ tid = [r \in Reqs |-> None]
    /\ msgs = [r \in Reqs |-> <<>>]
    /\ turns = [r \in Reqs |-> 0]
    /\ invoked = 0
    /\ chunks = 0
    /\ tpos = [r \in Reqs |-> 0]
    /\ flight = [r \in Reqs |-> {}]
    /\ tmsgs = [r \in Reqs |-> <<>>]
    /\ exc = [r \in Reqs |-> FALSE]
    /\ out = [r \in Reqs |-> <<>>]
    /\ feed = <<>>
    /\ fpos = 1

\* lifespan startup: the graph is compiled with the sqlite checkpointer
Startup ==
    /\ graph = "None"
    /\ graph' = "compiled"
    /\ UNCHANGED <<store, issued, pc, cid, text, tid, msgs, turns, invoked, chunks, tpos, flight, tmsgs, exc, out, feed, fpos>>

\* lines 197-198: graph is None, the error chunk is yielded
BeginNotReady(r, t, c) ==
    /\ pc[r] = "idle"
    /\ graph = "None"
    /\ text' = [text EXCEPT ![r] = t]
    /\ cid' = [cid EXCEPT ![r] = c]
    /\ Yield(r, <<NotReadyFrame>>)
    /\ pc' = [pc EXCEPT ![r] = "notready"]
    /\ UNCHANGED <<graph, store, issued, tid, msgs, turns, invoked, chunks, tpos, flight, tmsgs, exc, feed, fpos>>

\* lines 199-200: the end chunk, then return
NotReadyEnd(r) ==
    /\ pc[r] = "notready"
    /\ Yield(r, <<EndFrame>>)
    /\ pc' = [pc EXCEPT ![r] = "done"]
    /\ UNCHANGED <<graph, store, issued, cid, text, tid, msgs, turns, invoked, chunks, tpos, flight, tmsgs, exc, feed, fpos>>

\* lines 206-220: no checkpoint_id; a uuid is drawn and the checkpoint chunk
\* yielded; astream_events has built the run but not started it
BeginNew(r, t, c) ==
    /\ pc[r] = "idle"
    /\ graph # "None"
    /\ IsNewConversation(c)
    /\ issued < Len(UuidNames)
    /\ text' = [text EXCEPT ![r] = t]
    /\ cid' = [cid EXCEPT ![r] = c]
    /\ issued' = issued + 1
    /\ tid' = [tid EXCEPT ![r] = Some(ThreadId(None, Uuid4))]
    /\ Yield(r, NewConversationChunks(Uuid4))
    /\ pc' = [pc EXCEPT ![r] = "started"]
    /\ UNCHANGED <<graph, store, msgs, turns, invoked, chunks, tpos, flight, tmsgs, exc, feed, fpos>>

\* lines 221-228: a checkpoint_id is given; nothing is yielded
BeginContinue(r, t, c) ==
    /\ pc[r] = "idle"
    /\ graph # "None"
    /\ ~IsNewConversation(c)
    /\ text' = [text EXCEPT ![r] = t]
    /\ cid' = [cid EXCEPT ![r] = c]
    /\ tid' = [tid EXCEPT ![r] = Some(ThreadId(c, ""))]
    /\ pc' = [pc EXCEPT ![r] = "started"]
    /\ UNCHANGED <<graph, store, issued, msgs, turns, invoked, chunks, tpos, flight, tmsgs, exc, out, feed, fpos>>

\* line 231, first iteration: the run loads the thread's checkpoint, applies
\* the input through add_messages and enters the entry point "model"
GraphStart(r) ==
    /\ pc[r] = "started"
    /\ LET m == AddMessages(store[tid[r][1]], <<HumanMessage(r, text[r])>>)
       IN  /\ msgs' = [msgs EXCEPT ![r] = m]
           /\ Save(r, m)
    /\ turns' = [turns EXCEPT ![r] = 1]
    /\ pc' = [pc EXCEPT ![r] = "model"]
    /\ UNCHANGED <<graph, issued, cid, text, tid, invoked, chunks, tpos, flight, tmsgs, exc, out, feed, fpos>>

\* the model streams a token: on_chat_model_stream, classified at lines 235-238
ModelStream(r) ==
    /\ pc[r] = "model"
    /\ invoked < MaxInvocations
    /\ chunks < MaxChunks
    /\ chunks' = chunks + 1
    /\ Yield(r, Classify(StreamEvent("tok")))
    /\ UNCHANGED <<graph, store, issued, pc, cid, text, tid, msgs, turns, invoked, tpos, flight, tmsgs, exc, feed, fpos>>

\* the model node returns: the AIMessage is added, on_chat_model_end is
\* classified at lines 241-252, and tools_router picks the next node
ModelEnd(r, calls) ==
    /\ pc[r] = "model"
    /\ invoked < MaxInvocations
    /\ invoked' = invoked + 1
    /\ LET ai == AIMessage(r, calls)
           m == AddMessages(msgs[r], <<ai>>)
       IN  /\ msgs' = [msgs EXCEPT ![r] = m]
           /\ Save(r, m)
           /\ pc' = [pc EXCEPT ![r] = IF ToolsRouter(ai) = "tool_node" THEN "tool_node" ELSE "ending"]
    /\ Yield(r, Classify(ModelEndEvent(calls)))
    /\ UNCHANGED <<graph, issued, cid, text, tid, turns, chunks, tpos, flight, tmsgs, exc, feed, fpos>>

\* line 78: the tool calls tool_node works on
PendingCalls(r) == msgs[r][Len(msgs[r])].tool_calls

\* a loop that does not wait for the thread it started
MayProceedAnyTime(r) == TRUE

\* line 90: "await" lets the loop of line 82 go on only when the thread of
\* the search has returned
MayProceed(r) == flight[r] = {}

\* lines 82-90: the loop takes the next tool call; a google_serper call starts
\* serper_wrapper.results in a thread, any other call is passed over
ToolTake(r) ==
    /\ pc[r] = "tool_node"
    /\ MayProceed(r)
    /\ tpos[r] < Len(PendingCalls(r))
    /\ tpos' = [tpos EXCEPT ![r] = @ + 1]
    /\ LET c == PendingCalls(r)[tpos[r] + 1]
       IN  flight' = [flight EXCEPT ![r] = IF IsSearch(c) THEN @ \cup {c.id} ELSE @]
    /\ UNCHANGED <<graph, store, issued, pc, cid, text, tid, msgs, turns, invoked, chunks, tmsgs, exc, out, feed, fpos>>

\* lines 90-96: the thread of a search returns and its ToolMessage is appended
SearchReturn(r, id) ==
    /\ pc[r] = "tool_node"
    /\ id \in flight[r]
    /\ flight' = [flight EXCEPT ![r] = @ \ {id}]
    /\ LET c == CHOOSE c \in {PendingCalls(r)[i] : i \in 1..Len(PendingCalls(r))} : c.id = id
       IN  tmsgs' = [tmsgs EXCEPT ![r] = Append(@, ToolMessage(r, c.id, c.name))]
    /\ UNCHANGED <<graph, store, issued, pc, cid, text, tid, msgs, turns, invoked, chunks, tpos, exc, out, feed, fpos>>

\* line 98: the loop is over, tool_node returns its messages; the edge
\* tool_node -> model is taken
ToolNode(r) ==
    /\ pc[r] = "tool_node"
    /\ MayProceed(r)
    /\ tpos[r] = Len(PendingCalls(r))
    /\ LET m == AddMessages(msgs[r], tmsgs[r])
       IN  /\ msgs' = [msgs EXCEPT ![r] = m]
           /\ Save(r, m)
    /\ tpos' = [tpos EXCEPT ![r] = 0]
    /\ tmsgs' = [tmsgs EXCEPT ![r] = <<>>]
    /\ turns' = [turns EXCEPT ![r] = @ + 1]
    /\ pc' = [pc EXCEPT ![r] = "model"]
    /\ Yield(r, Classify(ChainEvent("tool_node")))
    /\ UNCHANGED <<graph, issued, cid, text, tid, invoked, chunks, flight, exc, feed, fpos>>

\* llm_with_tools.ainvoke raises in the model node
ModelFail(r) ==
    /\ pc[r] = "model"
    /\ invoked < MaxInvocations
    /\ invoked' = invoked + 1
    /\ Except(r, "model")
    /\ UNCHANGED <<graph, store, issued, cid, text, tid, msgs, turns, chunks, tpos, flight, tmsgs, feed, fpos>>

\* serper_wrapper.results raises in its thread; the exception leaves tool_node
SearchFail(r) ==
    /\ pc[r] = "tool_node"
    /\ flight[r] # {}
    /\ flight' = [flight EXCEPT ![r] = {}]
    /\ Except(r, "search")
    /\ UNCHANGED <<graph, store, issued, cid, text, tid, msgs, turns, invoked, chunks, tpos, tmsgs, feed, fpos>>

\* lines 276-277: the end chunk after the try statement
Finish(r) ==
    /\ pc[r] = "ending"
    /\ Yield(r, <<EndFrame>>)
    /\ pc' = [pc EXCEPT ![r] = "done"]
    /\ UNCHANGED <<graph, store, issued, cid, text, tid, msgs, turns, invoked, chunks, tpos, flight, tmsgs, exc, feed, fpos>>

Next ==
    \/ Startup
    \/ \E r \in Reqs, t \in Texts, c \in {None} \cup {Some(i) : i \in KnownIds} : BeginNotReady(r, t, c)
    \/ \E r \in Reqs : NotReadyEnd(r)
    \/ \E r \in Reqs, t \in Texts, c \in {None} \cup {Some(i) : i \in KnownIds} : BeginNew(r, t, c)
    \/ \E r \in Reqs, t \in Texts, c \in {None} \cup {Some(i) : i \in KnownIds} : BeginContinue(r, t, c)
    \/ \E r \in Reqs : GraphStart(r)
    \/ \E r \in Reqs : ModelStream(r)
    \/ \E r \in Reqs : \E calls \in ModelOutputs(turns[r]) : ModelEnd(r, calls)
    \/ \E r \in Reqs : ToolTake(r)
    \/ \E r \in Reqs : \E id \in flight[r] : SearchReturn(r, id)
    \/ \E r \in Reqs : ToolNode(r)
    \/ \E r \in Reqs : ModelFail(r)
    \/ \E r \in Reqs : SearchFail(r)
    \/ \E r \in Reqs : Finish(r)

Spec == Init /\ [][Next]_vars

\* the steps of call r that wait for nothing but the event loop, an awaited
\* call of the model or a search thread
Step(r) ==
    \/ NotReadyEnd(r)
    \/ GraphStart(r)
    \/ ModelStream(r)
    \/ \E calls \in ModelOutputs(turns[r]) : ModelEnd(r, calls)
    \/ ToolTake(r)
    \/ \E id \in flight[r] : SearchReturn(r, id)
    \/ ToolNode(r)
    \/ ModelFail(r)
    \/ SearchFail(r)
    \/ Finish(r)

\* the asyncio loop resumes every coroutine that can go on, and every call of
\* the model and every search returns or raises
SpecFair == Spec /\ \A r \in Reqs : WF_vars(Step(r))

\* ------------------------------------------------- the loop on given events

\* the shapes an entry at position i of a search payload can have: a dict with
\* a link, with a url only, with neither, with an empty link and a url; and an
\* entry that is no dict.  Links are numbered by position.
ItemShapes(i) ==
    << Item(TRUE, Some(i), None),
       Item(TRUE, None, Some(100 + i)),
       Item(TRUE, None, None),
       Item(TRUE, Some(0), Some(100 + i)),
       Item(FALSE, None, None) >>

\* payload lists: up to MaxPrefix entries of any shape, then up to MaxTail
\* entries that carry a link
ItemLists ==
    { [i \in 1..(n + k) |-> IF i <= n THEN ItemShapes(i)[f[i]] ELSE Item(TRUE, Some(i), None)] :
        <<n, k, f>> \in { <<n, k, f>> \in (0..MaxPrefix) \X (0..MaxTail) \X
                               UNION {[1..m -> 1..5] : m \in 0..MaxPrefix} :
                            DOMAIN f = 1..n } }

\* decoded values: a dict with an "organic" list, a list, a dict whose
\* "organic" cannot be iterated, a dict without "organic", anything else
Values ==
    {Value("dict", TRUE, TRUE, l) : l \in ItemLists}
    \cup {Value("list", FALSE, FALSE, l) : l \in ItemLists}
    \cup {Value("dict", TRUE, FALSE, <<>>), Value("dict", FALSE, FALSE, <<>>), NoValue}

\* outputs of the search tool: JSON text of a value, the value itself, or text
\* that is not JSON
Outputs ==
    {Output(TRUE, TRUE, v) : v \in Values}
    \cup {Output(FALSE, FALSE, v) : v \in Values}
    \cup {Output(TRUE, FALSE, NoValue)}

\* the kinds of event a run of the graph can hand to the loop: two tokens,
\* the end of a model turn with and without a search, the end of a node, the
\* end of a run of the search tool
EventKinds ==
    << StreamEvent("a"), StreamEvent("b"),
       ModelEndEvent(<<ToolCall("google_serper", Some("q1"), <<1, 1>>)>>),
       ModelEndEvent(<<>>),
       ChainEvent("model"),
       ToolEndEvent("google_serper",
                    Output(TRUE, TRUE, Value("list", FALSE, FALSE, <<Item(TRUE, Some(1), None)>>))) >>

\* the sequences of up to MaxEvents events of these kinds
EventSeqs ==
    { [i \in 1..Len(f) |-> EventKinds[f[i]]] :
        f \in UNION {[1..n -> 1..Len(EventKinds)] : n \in 0..MaxEvents} }

\* event sequences handed to the loop: a tool-end event followed by a token,
\* the end of a model turn followed by a token, one of each other kind, and
\* the sequences of mixed kinds
Feeds ==
    {<<ToolEndEvent("google_serper", o), StreamEvent("tok")>> : o \in Outputs}
    \cup {<<ToolEndEvent("other_tool", o)>> : o \in {Output(TRUE, TRUE, NoValue)}}
    \cup {<<ModelEndEvent(c), StreamEvent("tok")>> : c \in CallLists(1)}
    \cup {<<ChainEvent("model"), StreamEvent("tok")>>}
    \cup EventSeqs
    \cup {<<Event("on_chat_model_stream", "ChatOpenAI", FALSE, "", <<>>, NoOutput), StreamEvent("tok")>>}

\* a continuing conversation standing at the head of its event loop
InitClassify ==
    /\ graph = "compiled"
    /\ store = [i \in AllIds |-> <<>>]
    /\ issued = 0
    /\ pc = [r \in Reqs |-> IF r = "r1" THEN "loop" ELSE "idle"]
    /\ cid = [r \in Reqs |-> IF r = "r1" THEN Some("") ELSE None]
    /\ text = [r \in Reqs |-> IF r = "r1" THEN "hello" ELSE ""]
    /\ tid = [r \in Reqs |-> IF r = "r1" THEN Some("") ELSE None]
    /\ msgs = [r \in Reqs |-> <<>>]
    /\ turns = [r \in Reqs |-> 0]
    /\ invoked = 0
    /\ chunks = 0
    /\ tpos = [r \in Reqs |-> 0]
    /\ flight = [r \in Reqs |-> {}]
    /\ tmsgs = [r \in Reqs |-> <<>>]
    /\ exc = [r \in Reqs |-> FALSE]
    /\ out = [r \in Reqs |-> <<>>]
    /\ feed \in Feeds
    /\ fpos = 1

\* lines 231-269: one iteration of the loop on the next event
Consume(r) ==
    /\ pc[r] = "loop"
    /\ fpos <= Len(feed)
    /\ IF ClassifyRaises(feed[fpos])
       THEN Except(r, "classify")
       ELSE /\ Yield(r, Classify(feed[fpos]))
            /\ UNCHANGED <<pc, exc>>
    /\ fpos' = fpos + 1
    /\ UNCHANGED <<graph, store, issued, cid, text, tid, msgs, turns, invoked, chunks, tpos, flight, tmsgs, feed>>

\* the events are exhausted: the loop and the try statement are left
Exhaust(r) ==
    /\ pc[r] = "loop"
    /\ fpos > Len(feed)
    /\ pc' = [pc EXCEPT ![r] = "ending"]
    /\ UNCHANGED <<graph, store, issued, cid, text, tid, msgs, turns, invoked, chunks, tpos, flight, tmsgs, exc, out, feed, fpos>>

NextClassify ==
    \/ \E r \in Reqs : Consume(r)
    \/ \E r \in Reqs : Exhaust(r)
    \/ \E r \in Reqs : Finish(r)

SpecClassify == InitClassify /\ [][NextClassify]_vars

\* ------------------------------------------------- tool_node on given calls

\* a turn sequence whose first model turn returned a message with tool calls:
\* the history is saved and tool_node is about to run
InitTool ==
    /\ graph = "compiled"
    /\ issued = 0
    /\ pc = [r \in Reqs |-> IF r = "r1" THEN "tool_node" ELSE "idle"]
    /\ cid = [r \in Reqs |-> IF r = "r1" THEN Some("") ELSE None]
    /\ text = [r \in Reqs |-> IF r = "r1" THEN "hello" ELSE ""]
    /\ tid = [r \in Reqs |-> IF r = "r1" THEN Some("") ELSE None]
    /\ \E calls \in CallLists(1) \ {<<>>} :
          /\ msgs = [r \in Reqs |-> IF r = "r1"
                                    THEN <<HumanMessage("r1", "hello"), AIMessage("r1", calls)>>
                                    ELSE <<>>]
          /\ store = [i \in AllIds |-> IF i = "" THEN msgs["r1"] ELSE <<>>]
    /\ turns = [r \in Reqs |-> IF r = "r1" THEN 1 ELSE 0]
    /\ invoked = 1
    /\ chunks = 0
    /\ tpos = [r \in Reqs |-> 0]
    /\ flight = [r \in Reqs |-> {}]
    /\ tmsgs = [r \in Reqs |-> <<>>]
    /\ exc = [r \in Reqs |-> FALSE]
    /\ out = [r \in Reqs |-> <<>>]
    /\ feed = <<>>
    /\ fpos = 1

NextTool ==
    \/ \E r \in Reqs : ToolTake(r)
    \/ \E r \in Reqs : \E id \in flight[r] : SearchReturn(r, id)
    \/ \E r \in Reqs : ToolNode(r)
    \/ \E r \in Reqs : SearchFail(r)
    \/ \E r \in Reqs : Finish(r)

SpecTool == InitTool /\ [][NextTool]_vars

\* ------------------------------------------------------------------ claims

\* the frame types a client reads from the stream of call r
Types(r) == FrameTypes(out[r])

\* the positions of frames of type ty in the stream of call r
Positions(r, ty) ==
    LET t == Types(r)
    IN  {i \in 1..Len(t) : t[i] = ty}

\* call r found the graph compiled: its thread id has been set
Ready(r) == tid[r] # None

\* C1: every stream contains exactly one frame of type end, and that frame is
\* the last one, whether the server was ready or not.
C1_ExactlyOneEndLast ==
    \A r \in Reqs :
        pc[r] = "done" =>
            /\ Len(Types(r)) >= 1
            /\ Types(r)[Len(Types(r))] = "end"
            /\ Cardinality(Positions(r, "end")) = 1

\* C2: an exception raised in the turn sequence never leaves the generator;
\* exactly one error frame is emitted, the end frame follows it immediately
\* and no other frame follows it.
C2_ExceptionBecomesErrorThenEnd ==
    \A r \in Reqs :
        /\ pc[r] # "crashed"
        /\ exc[r] =>
            LET n == Len(Types(r))
            IN  /\ pc[r] \in {"ending", "done"}
                /\ Cardinality(Positions(r, "error")) = 1
                /\ pc[r] = "ending" => Types(r)[n] = "error"
                /\ pc[r] = "done" => n >= 2 /\ Types(r)[n - 1] = "error" /\ Types(r)[n] = "end"

\* a search that failed after search_start was streamed, stream finished
C2_Witness ==
    \E r \in Reqs : exc[r] /\ pc[r] = "done" /\ Positions(r, "search_start") # {}

\* C3 as stated: every request without checkpoint_id gets checkpoint as its
\* first frame.
C3_Original ==
    \A r \in Reqs :
        (pc[r] = "done" /\ cid[r] = None) =>
            Len(Types(r)) >= 1 /\ Types(r)[1] = "checkpoint"

\* C3 amended: every request without checkpoint_id that finds the graph
\* compiled gets, as the first chunk and first frame of its stream, the
\* checkpoint frame carrying the identifier just drawn, which is the thread id
\* of its run; nothing else of the stream precedes it.
C3_NewConversationCheckpointFirst ==
    \A r \in Reqs :
        (pc[r] # "idle" /\ cid[r] = None /\ Ready(r)) =>
            /\ Len(out[r]) >= 1
            /\ out[r][1] = CheckpointFrame(tid[r][1])
            /\ tid[r][1] \in {UuidNames[i] : i \in 1..issued}
            /\ Types(r)[1] = "checkpoint"
            /\ Positions(r, "checkpoint") = {1}

\* a finished new conversation whose stream carries model output
C3_Witness ==
    \E r \in Reqs :
        /\ pc[r] = "done" /\ cid[r] = None /\ Ready(r)
        /\ Positions(r, "content") # {}
        /\ Positions(r, "search_start") # {}

\* C4: a request with a checkpoint_id is never sent a checkpoint, its run uses
\* that identifier as thread id, and it starts from the history stored under
\* that identifier, to which the user message is appended and saved.
C4_ContinuingResumes ==
    [][\A r \in Reqs :
          cid'[r] # None =>
              /\ \A i \in 1..Len(out'[r]) : out'[r][i].data.type # "checkpoint"
              /\ Ready(r)' => tid'[r] = cid'[r]
              /\ (pc[r] = "started" /\ pc'[r] = "model") =>
                    /\ msgs'[r] = Append(store[cid[r][1]], HumanMessage(r, text[r]))
                    /\ store'[cid[r][1]] = msgs'[r]]_vars

\* a finished continuing conversation that resumed another call's history
C4_Witness ==
    \E r \in Reqs :
        /\ pc[r] = "done" /\ cid[r] # None /\ Ready(r)
        /\ Len(msgs[r]) >= 4
        /\ msgs[r][1].by # r
        /\ msgs[r][Len(msgs[r])].by = r

\* C5: a request made while graph is None gets exactly two frames, the
\* "Server not ready" error and end; the model is not invoked, no identifier
\* is drawn and no conversation state is read or written.
C5_NotReadyTwoFrames ==
    \A r \in Reqs :
        (pc[r] = "done" /\ ~Ready(r)) =>
            /\ Types(r) = <<"error", "end">>
            /\ Blocks(out[r])[1][1].val = "Server not ready. Please try again."
            /\ turns[r] = 0
            /\ msgs[r] = <<>>

\* C6: every chunk the generator yields is "data: " + JSON with a type field
\* + "\n\n".
C6_EveryChunkTerminated ==
    \A r \in Reqs :
        \A i \in 1..Len(out[r]) :
            /\ out[r][i].end = "\n\n"
            /\ out[r][i].data.type \in {"checkpoint", "content", "search_start", "search_results", "error", "end"}

\* the searches tool_node ran for call r: one ToolMessage each
Searches(r) == {i \in 1..Len(msgs[r]) : msgs[r][i].role = "tool" /\ msgs[r][i].by = r}

\* C7: in a finished new conversation whose model asked for google_serper and
\* whose searches succeeded, the stream holds checkpoint, search_start,
\* search_results, content and end in this order, with one search_results
\* frame per search that tool_node ran.
C7_SearchResultsStreamed ==
    \A r \in Reqs :
        (pc[r] = "done" /\ cid[r] = None /\ Ready(r) /\ ~exc[r] /\ Searches(r) # {}) =>
            /\ Types(r)[1] = "checkpoint"
            /\ Cardinality(Positions(r, "search_results")) = Cardinality(Searches(r))
            /\ \E i \in Positions(r, "search_start") :
                   \E j \in Positions(r, "search_results") : i < j
            /\ Types(r)[Len(Types(r))] = "end"

\* C8: two requests without checkpoint_id sending the same message get
\* different identifiers, and no message of one is in the history stored
\* under, or held by the run of, the other.
C8_IndependentHistories ==
    \A r1 \in Reqs : \A r2 \in Reqs \ {r1} :
        (cid[r1] = None /\ cid[r2] = None /\ Ready(r1) /\ Ready(r2) /\ text[r1] = text[r2]) =>
            /\ tid[r1] # tid[r2]
            /\ \A i \in 1..Len(store[tid[r2][1]]) : store[tid[r2][1]][i].by # r1
            /\ \A i \in 1..Len(msgs[r2]) : msgs[r2][i].by # r1

\* both new conversations have finished and both histories hold a reply
C8_Witness ==
    \A r \in Reqs :
        /\ pc[r] = "done" /\ cid[r] = None /\ Ready(r)
        /\ Len(store[tid[r][1]]) >= 2

\* the first event handed to the loop is the end of a google_serper run, and
\* call r has taken it
TookSearchEnd(r) ==
    /\ pc[r] # "idle"
    /\ fpos > 1
    /\ feed[1].event = "on_tool_end"
    /\ feed[1].name = "google_serper"

\* the entries of an output that the claim's extraction reads: those of the
\* "organic" list of a dict, else those of a list, else none
ClaimEntries(o) ==
    IF o.isstr /\ ~o.decodable THEN <<>>
    ELSE IF o.val.t = "dict" /\ o.val.organic /\ o.val.iterable THEN o.val.items
    ELSE IF o.val.t = "list" /\ ~(o.val.t = "dict" /\ o.val.organic) THEN o.val.items
    ELSE <<>>

ClaimIsOrganic(o) == ~(o.isstr /\ ~o.decodable) /\ o.val.t = "dict" /\ o.val.organic

\* the positions of the entries that give a link: in an "organic" list the
\* dicts that have a link, in a plain list every dict
ClaimLinked(o) ==
    {j \in 1..Len(ClaimEntries(o)) :
        LET it == ClaimEntries(o)[j]
        IN  it.isdict /\ (ClaimIsOrganic(o) => it.link # None)}

\* the link such an entry gives: its link in an "organic" list; in a plain
\* list its link unless absent or empty, then its url, then the empty string
ClaimLink(o, j) ==
    LET it == ClaimEntries(o)[j]
    IN  IF ClaimIsOrganic(o) THEN it.link[1]
        ELSE IF it.link # None /\ it.link[1] # 0 THEN it.link[1]
        ELSE IF it.url # None THEN it.url[1]
        ELSE 0

\* C9: the urls of the search_results frame are at most 8 and are the links
\* of the first 8 link-giving entries, in their order; more than 8 such
\* entries give exactly 8 urls.
C9_FirstEightLinks ==
    \A r \in Reqs :
        TookSearchEnd(r) =>
            LET o == feed[1].output
                u == out[r][1].data.val
                rank(j) == Cardinality({k \in ClaimLinked(o) : k <= j})
            IN  /\ out[r][1].data.type = "search_results"
                /\ Len(u) <= 8
                /\ Len(u) = IF Cardinality(ClaimLinked(o)) > 8 THEN 8 ELSE Cardinality(ClaimLinked(o))
                /\ \A j \in ClaimLinked(o) : rank(j) <= 8 => u[rank(j)] = ClaimLink(o, j)

\* a list payload of more than 8 link-giving entries, led by an entry that is
\* no dict and one without link or url, has been cut to 8
C9_Witness ==
    \E r \in Reqs :
        /\ TookSearchEnd(r)
        /\ feed[1].output.isstr
        /\ feed[1].output.val.t = "list"
        /\ Cardinality(ClaimLinked(feed[1].output)) > 8
        /\ ~feed[1].output.val.items[1].isdict
        /\ feed[1].output.val.items[2].link = None
        /\ feed[1].output.val.items[2].url = None
        /\ Len(out[r][1].data.val) = 8

\* an output that is not JSON, whose "organic" cannot be iterated, or that is
\* neither a dict with "organic" nor a list
Degenerate(o) ==
    \/ o.isstr /\ ~o.decodable
    \/ o.val.t = "dict" /\ o.val.organic /\ ~o.val.iterable
    \/ ~(o.val.t = "dict" /\ o.val.organic) /\ o.val.t # "list"

\* C10: on such an output the loop does not raise: it yields search_results
\* with no urls, no error frame, and goes on to the next event.
C10_DegenerateOutputGivesNoUrls ==
    \A r \in Reqs :
        (TookSearchEnd(r) /\ Degenerate(feed[1].output)) =>
            /\ ~exc[r]
            /\ pc[r] # "crashed"
            /\ Positions(r, "error") = {}
            /\ out[r][1] = Frame(Payload("search_results", <<>>))
            /\ fpos > 2 => (Len(out[r]) >= 2 /\ out[r][2].data.type = "content")

\* text that is not JSON was taken, the next event gave its content frame and
\* the stream ended
C10_Witness ==
    \E r \in Reqs :
        /\ TookSearchEnd(r)
        /\ feed[1].output.isstr /\ ~feed[1].output.decodable
        /\ pc[r] = "done"
        /\ Types(r) = <<"search_results", "content", "end">>

\* the last message of the history call r works on
LastMessage(r) == msgs[r][Len(msgs[r])]

\* a step in which no exception is raised in call r
NoRaise(r) == exc'[r] = exc[r]

\* what C11 says of one step of the turn sequence of call r
C11_Step(r) ==
    /\ (pc[r] = "started" /\ pc'[r] # "started") => pc'[r] = "model"
    /\ (pc[r] = "model" /\ pc'[r] # "model" /\ NoRaise(r)) =>
            /\ LastMessage(r)'.role = "ai" /\ LastMessage(r)'.by = r
            /\ pc'[r] = "tool_node" <=> Len(LastMessage(r)'.tool_calls) >= 1
            /\ pc'[r] = "ending" <=> Len(LastMessage(r)'.tool_calls) = 0
    /\ (pc[r] = "tool_node" /\ pc'[r] # "tool_node" /\ NoRaise(r)) => pc'[r] = "model"
    /\ (pc[r] # "ending" /\ pc'[r] = "ending" /\ NoRaise(r)) => pc[r] = "model"

\* C11: the turn sequence is the state machine MODEL -> (TOOL | END),
\* TOOL -> MODEL. It starts in MODEL; a completed model turn is followed by
\* TOOL exactly when its message carries one or more tool calls and by END
\* otherwise; TOOL is followed by MODEL; END is reached only from MODEL.
\* (A raised exception abandons the graph and is left out.)
C11_TurnStateMachine == [][\A r \in Reqs : C11_Step(r)]_vars

\* a turn sequence that went MODEL, TOOL, MODEL, END
C11_Witness ==
    \E r \in Reqs :
        /\ Ready(r) /\ pc[r] = "done" /\ ~exc[r]
        /\ turns[r] = 2
        /\ Len(msgs[r]) >= 3
        /\ LastMessage(r).tool_calls = <<>>

\* the positions of the calls named google_serper in a list of tool calls
SearchPositions(calls) == {i \in 1..Len(calls) : calls[i].name = "google_serper"}

\* the k-th smallest of a set of positions
Kth(S, k) == CHOOSE i \in S : Cardinality({j \in S : j <= i}) = k

\* the position of the k-th call named google_serper
KthSearch(calls, k) == Kth(SearchPositions(calls), k)

\* tool_node has returned in the first turn of call r: the calls it was given
\* are those of the second message, what it returned follows that message
ToolNodeReturned(r) == pc[r] = "model" /\ turns[r] = 2 /\ ~exc[r]

\* C12: tool_node returns exactly one tool message per call named
\* google_serper, in the order of the calls, each carrying the id and the tool
\* name of its call; calls of any other name give no message and no error.
C12_OneResultPerSearch ==
    \A r \in Reqs :
        LET calls == msgs[r][2].tool_calls
            new == SubSeq(msgs[r], 3, Len(msgs[r]))
        IN  /\ ToolNodeReturned(r) =>
                /\ Len(new) = Cardinality(SearchPositions(calls))
                /\ \A k \in 1..Len(new) :
                      /\ new[k].role = "tool"
                      /\ new[k].tool_call_id = calls[KthSearch(calls, k)].id
                      /\ new[k].name = calls[KthSearch(calls, k)].name
            /\ (pc[r] # "idle" /\ SearchPositions(calls) = {}) =>
                   ~exc[r] /\ pc[r] # "crashed" /\ tmsgs[r] = <<>>

\* tool_node returned on a call of another name followed by a search
C12_Witness ==
    \E r \in Reqs :
        /\ ToolNodeReturned(r)
        /\ Len(msgs[r][2].tool_calls) = 2
        /\ msgs[r][2].tool_calls[1].name = "other_tool"
        /\ msgs[r][2].tool_calls[2].name = "google_serper"
        /\ Len(msgs[r]) = 3
        /\ msgs[r][3].tool_call_id = <<1, 2>>

\* the position of the last message of the model in the history of call r
LastAI(r) == CHOOSE i \in 1..Len(msgs[r]) :
                 /\ msgs[r][i].role = "ai"
                 /\ \A j \in (i + 1)..Len(msgs[r]) : msgs[r][j].role # "ai"

\* the model is about to be invoked again after a step of tool_node
InvokedAgain(r) == pc[r] = "model" /\ turns[r] >= 2

\* C13: when the model is invoked again after a step of tool_node, the
\* history holds exactly one tool message for the id of each tool call of the
\* preceding message of the model, and no tool message after it whose id is
\* the id of none of its calls.
C13_EveryCallAnswered ==
    \A r \in Reqs :
        InvokedAgain(r) =>
            LET n == LastAI(r)
                calls == msgs[r][n].tool_calls
                ids == {calls[i].id : i \in 1..Len(calls)}
                after == (n + 1)..Len(msgs[r])
            IN  /\ \A id \in ids :
                      Cardinality({j \in after : msgs[r][j].role = "tool"
                                                  /\ msgs[r][j].tool_call_id = id}) = 1
                /\ \A j \in after :
                      msgs[r][j].role = "tool" => msgs[r][j].tool_call_id \in ids

\* the first event handed to the loop is the end of a model turn, and call r
\* has taken it
TookModelEnd(r) ==
    /\ pc[r] # "idle"
    /\ fpos > 1
    /\ feed[1].event = "on_chat_model_end"

\* the "query" argument of a tool call as the claim reads it
ClaimQuery(call) == IF call.args = None THEN "" ELSE call.args[1]

\* the events call r has taken that are the end of a model turn whose output
\* has a call named google_serper
SearchTurnEnds(r) ==
    {k \in 1..(fpos - 1) : /\ feed[k].event = "on_chat_model_end"
                           /\ SearchPositions(feed[k].tool_calls) # {}}

\* C14: the end of a model turn gives a search_start frame exactly when the
\* output of the turn has one or more calls named google_serper; then it gives
\* exactly one, carrying the query of the first of these calls (the empty
\* string without "query"), however many they are.
C14_OneSearchStartFirstQuery ==
    \A r \in Reqs :
        pc[r] # "idle" =>
            LET starts == {i \in 1..Len(out[r]) : out[r][i].data.type = "search_start"}
            IN  /\ Cardinality(starts) = Cardinality(SearchTurnEnds(r))
                /\ Cardinality(Positions(r, "search_start")) = Cardinality(SearchTurnEnds(r))
                /\ \A j \in 1..Cardinality(starts) :
                      LET calls == feed[Kth(SearchTurnEnds(r), j)].tool_calls
                      IN  out[r][Kth(starts, j)] =
                              Frame(Payload("search_start",
                                            ClaimQuery(calls[Kth(SearchPositions(calls), 1)])))

\* a turn with a call of another name, then a search for q2
C14_Witness ==
    \E r \in Reqs :
        /\ TookModelEnd(r)
        /\ pc[r] = "done"
        /\ Len(feed[1].tool_calls) = 2
        /\ feed[1].tool_calls[1].name = "other_tool"
        /\ feed[1].tool_calls[2].name = "google_serper"
        /\ out[r][1].data = Payload("search_start", "q2")

\* what the claim lets one event give: its frame type, and the text for a
\* content frame
ClaimImage(e) ==
    IF e.event = "on_chat_model_stream"
    THEN <<[type |-> "content", content |-> e.content]>>
    ELSE IF e.event = "on_chat_model_end" /\ SearchPositions(e.tool_calls) # {}
    THEN <<[type |-> "search_start", content |-> ""]>>
    ELSE IF e.event = "on_tool_end" /\ e.name = "google_serper"
    THEN <<[type |-> "search_results", content |-> ""]>>
    ELSE <<>>

RECURSIVE ClaimImages(_)
ClaimImages(es) == IF es = <<>> THEN <<>> ELSE ClaimImage(Head(es)) \o ClaimImages(Tail(es))

\* the frames the client reads from call r between the checkpoint frame and
\* the closing error and end frames
MiddleFrames(r) ==
    LET b == Blocks(out[r])
        f == [i \in 1..Len(b) |->
                 [type |-> BlockType(b[i]),
                  content |-> IF BlockType(b[i]) = "content" THEN b[i][1].val ELSE ""]]
    IN  SelectSeq(f, LAMBDA x : x.type \notin {"checkpoint", "error", "end"})

\* the events call r has taken without raising
Taken(r) == SubSeq(feed, 1, IF exc[r] THEN fpos - 2 ELSE fpos - 1)

\* C15: the frames between the checkpoint frame and the closing error or end
\* frame are the image, in order, of the events taken: every token event gives
\* one content frame with its text, every event gives at most one frame,
\* events of other kinds give none, and frames are never reordered.
C15_FramesFollowEvents ==
    \A r \in Reqs :
        pc[r] # "idle" =>
            /\ MiddleFrames(r) = ClaimImages(Taken(r))
            /\ \A k \in 1..Len(feed) : Len(ClaimImage(feed[k])) <= 1

\* a token, the end of a model turn with a search and a second token were
\* taken, and the stream closed
C15_Witness ==
    \E r \in Reqs :
        /\ pc[r] = "done"
        /\ Len(feed) = 3
        /\ feed[1] = StreamEvent("a")
        /\ feed[2].event = "on_chat_model_end"
        /\ feed[3] = StreamEvent("b")
        /\ MiddleFrames(r) = <<[type |-> "content", content |-> "a"],
                               [type |-> "search_start", content |-> ""],
                               [type |-> "content", content |-> "b"]>>

\* the ids of the calls named google_serper among the first n of a list
SearchIdsUpTo(calls, n) ==
    LET S == {i \in SearchPositions(calls) : i <= n}
    IN  [k \in 1..Cardinality(S) |-> calls[Kth(S, k)].id]

\* tool_node of call r is running
InToolNode(r) == pc[r] = "tool_node"

\* what C16 says of a state: at most one search of the turn sequence is in
\* flight, it is the call the loop stands at, and the searches before it have
\* returned, in the order of the calls
C16_State(r) ==
    InToolNode(r) =>
        LET calls == PendingCalls(r)
            done == IF flight[r] = {} THEN tpos[r] ELSE tpos[r] - 1
        IN  /\ Cardinality(flight[r]) <= 1
            /\ flight[r] # {} => tpos[r] >= 1 /\ flight[r] = {calls[tpos[r]].id}
            /\ [k \in 1..Len(tmsgs[r]) |-> tmsgs[r][k].tool_call_id] = SearchIdsUpTo(calls, done)

\* what C16 says of a step: a search is started only when none is in flight,
\* and tool_node hands over to the model only when the loop has taken every
\* call and the last search has returned
C16_Step(r) ==
    /\ (InToolNode(r) /\ flight'[r] \ flight[r] # {}) => flight[r] = {}
    /\ (InToolNode(r) /\ pc'[r] = "model") =>
            /\ flight[r] = {}
            /\ tpos[r] = Len(PendingCalls(r))
            /\ Len(tmsgs[r]) = Cardinality(SearchPositions(PendingCalls(r)))

\* C16: within one step of tool_node the calls are run one at a time in the
\* order received: search k+1 is not started before search k has returned,
\* though each runs in a thread of its own; at most one search of a turn
\* sequence is in flight at any moment, and the loop of the graph resumes only
\* after the last result is there.
C16_SearchesOneAtATime ==
    /\ [](\A r \in Reqs : C16_State(r))
    /\ [][\A r \in Reqs : C16_Step(r)]_vars

\* the second search of a message is in flight, the first has returned
C16_Witness ==
    \E r \in Reqs :
        /\ InToolNode(r)
        /\ Cardinality(SearchPositions(PendingCalls(r))) = 2
        /\ tpos[r] = 2
        /\ flight[r] = {PendingCalls(r)[2].id}
        /\ Len(tmsgs[r]) = 1
        /\ tmsgs[r][1].tool_call_id = PendingCalls(r)[1].id

IsPrefix(a, b) == Len(a) <= Len(b) /\ SubSeq(b, 1, Len(a)) = a

\* the graph run of call r is under way
Running(r) == pc[r] \in {"model", "tool_node"}

\* the calls that have loaded the history of identifier i
LoadedOn(i) == {r \in Reqs : tid[r] = Some(i) /\ msgs[r] # <<>>}

\* the turn sequences on identifier i came one after the other: of two calls
\* that have loaded its history, one had finished its run before the other
\* loaded, so the other's copy starts with everything the first one saved
Sequential(i) ==
    \A r1 \in LoadedOn(i) : \A r2 \in LoadedOn(i) \ {r1} :
        \/ ~Running(r1) /\ IsPrefix(msgs[r1], msgs[r2])
        \/ ~Running(r2) /\ IsPrefix(msgs[r2], msgs[r1])

\* the position of the user message of call r in the history it works on
OwnHuman(r) == CHOOSE h \in 1..Len(msgs[r]) : msgs[r][h].role = "human" /\ msgs[r][h].by = r

\* C17: the history kept under a checkpoint identifier is append-only across
\* turns and turn sequences. The user message of a request is appended before
\* the model is first invoked for it; and over requests that follow one
\* another on the same identifier every save leaves the history held before
\* it as a prefix of the history held after it.
C17_HistoryAppendOnly ==
    [][/\ \A i \in AllIds :
              (Sequential(i) /\ Sequential(i)') => IsPrefix(store[i], store'[i])
       /\ \A r \in Reqs :
              (pc[r] = "started" /\ pc'[r] # "started") =>
                  /\ invoked' = invoked
                  /\ msgs'[r] = Append(store[tid[r][1]], HumanMessage(r, text[r]))
       /\ \A r \in Reqs :
              msgs[r] # <<>> =>
                  /\ IsPrefix(msgs[r], msgs'[r])
                  /\ \A j \in 1..Len(msgs'[r]) :
                        (msgs'[r][j].by = r /\ msgs'[r][j].role # "human") => j > OwnHuman(r)]_vars

\* two requests have run one after the other on one identifier, and its
\* history holds both exchanges
C17_Witness ==
    \E i \in AllIds : \E r1 \in Reqs : \E r2 \in Reqs \ {r1} :
        /\ tid[r1] = Some(i) /\ tid[r2] = Some(i)
        /\ pc[r1] = "done" /\ pc[r2] = "done"
        /\ Sequential(i)
        /\ Len(store[i]) = 4
        /\ store[i][1].by = r1 /\ store[i][2].by = r1
        /\ store[i][3].by = r2 /\ store[i][4].by = r2
        /\ store[i] = msgs[r2]

\* the model's bound on model invocations stops call r at the model node;
\* the turn sequence itself has no such bound
AtBound(r) == pc[r] = "model" /\ invoked >= MaxInvocations

\* call r has been taken up and has not closed its stream
Open(r) == pc[r] \in {"notready", "started", "model", "tool_node", "ending"}

\* what C18 says of a state: the turn sequence of call r has left the loop
\* exactly when its last model turn carried no tool call or an exception was
\* raised, and a closed stream ends with the end frame
C18_State(r) ==
    Ready(r) =>
        LET quiet == /\ msgs[r] # <<>>
                     /\ LastMessage(r).role = "ai" /\ LastMessage(r).by = r
                     /\ LastMessage(r).tool_calls = <<>>
        IN  /\ pc[r] \in {"ending", "done"} <=> (exc[r] \/ quiet)
            /\ (~exc[r] /\ ~quiet) => pc[r] \in {"started", "model", "tool_node"}
            /\ pc[r] = "done" => out[r][Len(out[r])] = EndFrame

\* C18: the loop has no iteration cap of its own. A turn sequence reaches END,
\* and its stream the end frame, exactly when a model turn carries no tool
\* call or an exception is raised; as long as the model asks for a tool on
\* every turn the sequence stays in MODEL and TOOL. When every call of the
\* model and every search returns, every stream that was opened is closed by
\* the end frame, unless the model keeps asking for tools (here: up to the
\* bound on model invocations).
C18_EndsWhenModelStops ==
    /\ [](\A r \in Reqs : C18_State(r))
    /\ \A r \in Reqs : Open(r) ~> (pc[r] = "done" \/ AtBound(r))

\* a turn sequence that asked for a tool on every turn, as far as the bound
\* lets it go
C18_Witness ==
    \E r \in Reqs :
        /\ AtBound(r) /\ ~exc[r]
        /\ turns[r] = MaxInvocations + 1
        /\ LastAI(r) < Len(msgs[r])
        /\ msgs[r][LastAI(r)].tool_calls # <<>>

\* the last message of call r is a model turn whose tool calls all have names
\* other than google_serper
Unrecognised(r) ==
    /\ msgs[r] # <<>>
    /\ LastMessage(r).role = "ai" /\ LastMessage(r).by = r
    /\ LastMessage(r).tool_calls # <<>>
    /\ SearchPositions(LastMessage(r).tool_calls) = {}

\* what C19 says of one step of call r
C19_Step(r) ==
    /\ (pc[r] = "model" /\ msgs'[r] # msgs[r] /\ Unrecognised(r)') =>
            /\ pc'[r] = "tool_node"
            /\ out'[r] = out[r]
    /\ (InToolNode(r) /\ Unrecognised(r)) =>
            /\ pc'[r] \in {"tool_node", "model"}
            /\ NoRaise(r)
            /\ out'[r] = out[r]
            /\ msgs'[r] = msgs[r]
            /\ flight'[r] = {} /\ tmsgs'[r] = <<>>
            /\ pc'[r] = "model" => store'[tid[r][1]] = msgs[r]

\* C19: the router sends a model turn to tool_node whatever the names of its
\* tool calls, and tool_node runs only google_serper: a turn whose calls all
\* have other names goes to TOOL, gives no search_start and no search_results
\* frame, adds nothing to the history, and the model is entered again with
\* the history that turn left.
C19_UnrecognisedTurnAddsNothing ==
    /\ [](\A r \in Reqs : (InToolNode(r) /\ Unrecognised(r)) => flight[r] = {} /\ tmsgs[r] = <<>>)
    /\ [][\A r \in Reqs : C19_Step(r)]_vars

\* the model is entered again and the last message of the history is the
\* turn that asked for the other tool
C19_Witness ==
    \E r \in Reqs :
        /\ InvokedAgain(r)
        /\ Unrecognised(r)
        /\ store[tid[r][1]] = msgs[r]
        /\ Positions(r, "search_start") = {}
        /\ Positions(r, "search_results") = {}

\* the identifiers the server has generated
Generated == {UuidNames[i] : i \in 1..issued}

\* C20: whether a conversation is new is decided by whether checkpoint_id is
\* given, never by what the store holds. A request with an identifier under
\* which no history is stored (one the server never issued, or the empty
\* string) is a continuing one: it gets no checkpoint frame and its history
\* is started under the identifier the client chose. The server generates an
\* identifier only when checkpoint_id is absent.
C20_NewDecidedByArgumentOnly ==
    /\ \A r \in Reqs :
          Ready(r) =>
              /\ cid[r] # None =>
                    /\ tid[r] = cid[r]
                    /\ \A i \in 1..Len(out[r]) : out[r][i].data.type # "checkpoint"
                    /\ msgs[r] # <<>> => store[cid[r][1]] # <<>>
              /\ cid[r] = None =>
                    /\ tid[r][1] \in Generated
                    /\ out[r][1] = CheckpointFrame(tid[r][1])
    /\ issued = Cardinality({r \in Reqs : Ready(r) /\ cid[r] = None})

\* one request came with the empty string and one with an identifier the
\* server never issued; each started the history kept under its identifier
C20_Witness ==
    \E r1 \in Reqs : \E r2 \in Reqs \ {r1} :
        /\ cid[r1] = Some("") /\ cid[r2] = Some("x")
        /\ Ready(r1) /\ Ready(r2)
        /\ pc[r1] = "done" /\ pc[r2] = "done"
        /\ issued = 0
        /\ msgs[r1][1].by = r1 /\ msgs[r2][1].by = r2
        /\ store[""] = msgs[r1] /\ store["x"] = msgs[r2]
        /\ Types(r1)[1] # "checkpoint" /\ Types(r2)[1] # "checkpoint"

=============================================================================
